---- MODULE Spec2Model ----
(***************************************************************************)
(* billing-notifier: src/main.rs.                                          *)
(*                                                                         *)
(* One invocation of the program: read the two environment variables, ask  *)
(* Cost Explorer for the cost of the window [today - 1 day, today), take   *)
(* the UnblendedCost of the first result, and post it to a Slack channel.  *)
(*                                                                         *)
(* Option<T> is a sequence of length 0 (None) or 1 (Some).  A Rust String  *)
(* whose characters the program inspects (the amount, the two dates) is a  *)
(* sequence of one-character strings.  A Result, and the way the process   *)
(* ends, is a tagged tuple <<"Ok", v>>, <<"Err", msg>> or <<"Panic", msg>>.*)
(***************************************************************************)
EXTENDS Integers, Sequences, FiniteSets

VARIABLES
    pc,          \* where main (and get_cost inside it) stands
    env,         \* the process environment: variable name -> Option<String>
    today,       \* what Utc::today() returns
    granularity, \* the CostGranularityType handed to get_cost
    token,       \* main's token, once read
    channel_id,  \* main's channel_id, once read
    request,     \* Option<GetCostAndUsageRequest>: the request sent
    response,    \* Option<GetCostAndUsageResponse>: the response received
    cost,        \* Option<Cost>: what get_cost returned
    message,     \* Option<String>: the formatted message
    calls,       \* the external calls made so far, in order (history)
    outcome      \* <<"Running">>, or how main ended

vars == <<pc, env, today, granularity, token, channel_id, request, response,
          cost, message, calls, outcome>>

None == <<>>
Some(x) == <<x>>

----------------------------------------------------------------------------
(* Bounds of the model.                                                    *)

MinYear == 2023
MaxYear == 2025
MaxAmountLen == 3
MaxBuckets == 2

----------------------------------------------------------------------------
(* Constants and enums of the program.                                     *)

UNBLENDED_COST == "UnblendedCost"

CostGranularityType == {"Monthly", "Daily", "Hourly"}

name(self) ==
    CASE self = "Monthly" -> "MONTHLY"
      [] self = "Daily"   -> "DAILY"
      [] self = "Hourly"  -> "HOURLY"

\* The error messages of the program, by the failure each one reports.
ErrTokenMissing   == "SLACK_API_TOKEN env var must be set"
ErrChannelMissing == "SLACK_CHANNEL_ID env var must be set"
ErrQueryFailed    == "Request error"
ErrNoResultBucket == "Nothing first result"
ErrMissingTotals  == "Error"
ErrAmountParse    == "Parse error Float32"
ErrClientBuild    == "Could not get default_client"
ErrDeliveryFailed == "Could not send massage"
\* std's message when HashMap's Index finds no entry.
PanicNoEntry      == "no entry found for key"

----------------------------------------------------------------------------
(* chrono's Date<Utc>: a proleptic Gregorian calendar date.                *)

IsLeapYear(y) == (y % 4 = 0 /\ y % 100 # 0) \/ y % 400 = 0

DaysInMonth(y, m) ==
    IF m = 2 THEN (IF IsLeapYear(y) THEN 29 ELSE 28)
    ELSE IF m \in {4, 6, 9, 11} THEN 30 ELSE 31

Years == (MinYear .. MaxYear) \cup {2000, 2100}

\* The dates Utc::today() is drawn from.
Dates ==
    {d \in [year : Years, month : 1 .. 12, day : 1 .. 31] :
        d.day <= DaysInMonth(d.year, d.month)}

RECURSIVE DaysBeforeMonth(_, _)
DaysBeforeMonth(y, m) ==
    IF m = 1 THEN 0 ELSE DaysBeforeMonth(y, m - 1) + DaysInMonth(y, m - 1)

\* NaiveDate::ordinal: the day of the year, from 1.
Ordinal(d) == DaysBeforeMonth(d.year, d.month) + d.day

\* NaiveDate::from_yo: the date of a year and a day of that year.
FromYo(y, ordinal) ==
    LET m == CHOOSE k \in 1 .. 12 :
                 /\ DaysBeforeMonth(y, k) < ordinal
                 /\ ordinal <= DaysBeforeMonth(y, k) + DaysInMonth(y, k)
    IN  [year |-> y, month |-> m, day |-> ordinal - DaysBeforeMonth(y, m)]

\* chrono::naive::internals::YEAR_DELTAS: the leap days of the years
\* before year i of a 400-year cycle (year 0 of the cycle is a leap year).
YearDeltas(i) ==
    IF i = 0 THEN 0 ELSE 1 + ((i - 1) \div 4) - ((i - 1) \div 100)

yo_to_cycle(year_mod_400, ordinal) ==
    year_mod_400 * 365 + YearDeltas(year_mod_400) + ordinal - 1

cycle_to_yo(cycle) ==
    LET y0 == cycle \div 365
        o0 == cycle % 365
        delta == YearDeltas(y0)
    IN  IF o0 < delta
        THEN <<y0 - 1, o0 + 365 - YearDeltas(y0 - 1) + 1>>
        ELSE <<y0, o0 - delta + 1>>

\* Date - Duration::days(n), as NaiveDate::checked_sub_signed computes it:
\* through the day number within the date's 400-year cycle.
SubDays(d, n) ==
    LET year_div_400 == d.year \div 400
        year_mod_400 == d.year % 400
        cycle0 == yo_to_cycle(year_mod_400, Ordinal(d)) - n
        cycle_div_400y == cycle0 \div 146097
        cycle == cycle0 % 146097
        yo == cycle_to_yo(cycle)
    IN  FromYo((year_div_400 + cycle_div_400y) * 400 + yo[1], yo[2])

DigitChars == <<"0", "1", "2", "3", "4", "5", "6", "7", "8", "9">>
Digit(n) == DigitChars[n + 1]

\* Date::format("%Y-%m-%d").to_string(), for the years 0 .. 9999.
FormatDate(d) ==
    << Digit(d.year \div 1000), Digit((d.year \div 100) % 10),
       Digit((d.year \div 10) % 10), Digit(d.year % 10), "-",
       Digit(d.month \div 10), Digit(d.month % 10), "-",
       Digit(d.day \div 10), Digit(d.day % 10) >>

\* Variant: the day field decremented, with no borrow from the month.
SubOneDayNoBorrow(end_date) ==
    [end_date EXCEPT !.day = end_date.day - 1]

before_one_day(end_date) == SubDays(end_date, 1)

get_date_interval_from_end_date(end_date) ==
    [start |-> FormatDate(before_one_day(end_date)),
     end   |-> FormatDate(end_date)]

----------------------------------------------------------------------------
(* f32::from_str (core::num::dec2flt).  An f32 is modelled by the decimal  *)
(* value it was parsed from, sign * m * 10^e with m free of trailing       *)
(* zeros, or by an infinity or a NaN; the rounding of that decimal to the  *)
(* nearest binary32 is modelled where it changes the kind of the value     *)
(* (overflow to an infinity, underflow to zero), not in the last bits.     *)

Finite(neg, m, e) == [kind |-> "finite", neg |-> neg, m |-> m, e |-> e]
Infinite(neg)     == [kind |-> "inf", neg |-> neg, m |-> 0, e |-> 0]
NaN(neg)          == [kind |-> "nan", neg |-> neg, m |-> 0, e |-> 0]

IsDigit(c) == \E n \in 1 .. 10 : DigitChars[n] = c
DigitVal(c) == (CHOOSE n \in 1 .. 10 : DigitChars[n] = c) - 1

\* The number of digits of s from position i on, up to the first non-digit.
RECURSIVE CountDigits(_, _)
CountDigits(s, i) ==
    IF i <= Len(s) /\ IsDigit(s[i]) THEN 1 + CountDigits(s, i + 1) ELSE 0

\* The value of the digits s[i .. j], read left to right.
RECURSIVE DigitsValue(_, _, _)
DigitsValue(s, i, j) ==
    IF j < i THEN 0 ELSE DigitsValue(s, i, j - 1) * 10 + DigitVal(s[j])

RECURSIVE NumDigits(_)
NumDigits(m) == IF m < 10 THEN 1 ELSE 1 + NumDigits(m \div 10)

RECURSIVE Pow10(_)
Pow10(k) == IF k = 0 THEN 1 ELSE 10 * Pow10(k - 1)

\* m * 10^e with the trailing zeros of m moved into e; zero is 0 * 10^0.
RECURSIVE Normalize(_, _, _)
Normalize(neg, m, e) ==
    IF m = 0 THEN Finite(neg, 0, 0)
    ELSE IF m % 10 = 0 THEN Normalize(neg, m \div 10, e + 1)
    ELSE Finite(neg, m, e)

\* The first four significant digits of m (m has no trailing zeros).
Lead4(m) ==
    IF NumDigits(m) <= 4 THEN m * Pow10(4 - NumDigits(m))
    ELSE m \div Pow10(NumDigits(m) - 4)

\* Round a decimal to binary32: above f32::MAX (3.4028235e38) it is an
\* infinity, below half the least subnormal (7.006e-46) it is zero.
RoundF32(v) ==
    LET mag == NumDigits(v.m) - 1 + v.e
    IN  IF v.m = 0 THEN v
        ELSE IF mag > 38 \/ (mag = 38 /\ Lead4(v.m) > 3402) THEN Infinite(v.neg)
        ELSE IF mag < -46 \/ (mag = -46 /\ Lead4(v.m) <= 7006)
             THEN Finite(v.neg, 0, 0)
        ELSE v

ToAsciiLowercase(c) ==
    CASE c = "I" -> "i" [] c = "N" -> "n" [] c = "F" -> "f" [] c = "A" -> "a"
      [] c = "T" -> "t" [] c = "Y" -> "y" [] OTHER -> c

Lowercase(s) == [i \in 1 .. Len(s) |-> ToAsciiLowercase(s[i])]

\* dec2flt's parse_number on the text after the sign: digits, an optional
\* point and digits, at least one digit in all, an optional exponent, and
\* nothing after it.  <<"Ok", m, e>> or <<"Err">>.
ParseNumber(s) ==
    LET nint   == CountDigits(s, 1)
        hasdot == nint + 1 <= Len(s) /\ s[nint + 1] = "."
        nfrac  == IF hasdot THEN CountDigits(s, nint + 2) ELSE 0
        p      == IF hasdot THEN nint + 2 + nfrac ELSE nint + 1
        hasexp == p <= Len(s) /\ s[p] \in {"e", "E"}
        hassgn == hasexp /\ p + 1 <= Len(s) /\ s[p + 1] \in {"+", "-"}
        q      == IF hassgn THEN p + 2 ELSE p + 1
        nexp   == IF hasexp THEN CountDigits(s, q) ELSE 0
        last   == IF hasexp THEN q + nexp - 1 ELSE p - 1
        mant   == DigitsValue(s, 1, nint) * Pow10(nfrac)
                    + (IF hasdot THEN DigitsValue(s, nint + 2, nint + 1 + nfrac)
                       ELSE 0)
        expv   == IF hasexp THEN DigitsValue(s, q, q + nexp - 1) ELSE 0
        expn   == IF hassgn /\ s[p + 1] = "-" THEN 0 - expv ELSE expv
    IN  IF nint + nfrac = 0 THEN <<"Err">>
        ELSE IF hasexp /\ nexp = 0 THEN <<"Err">>
        ELSE IF last # Len(s) THEN <<"Err">>
        ELSE <<"Ok", mant, expn - nfrac>>

\* dec2flt's parse_inf_nan on the text after the sign.
ParseInfNan(s, neg) ==
    LET l == Lowercase(s)
    IN  IF l = <<"n", "a", "n">> THEN <<"Ok", NaN(neg)>>
        ELSE IF l = <<"i", "n", "f">>
                \/ l = <<"i", "n", "f", "i", "n", "i", "t", "y">>
             THEN <<"Ok", Infinite(neg)>>
        ELSE <<"Err">>

\* Variant: a parse that reads the leading digits and ignores the rest.
F32FromStrAcceptDigitPrefix(s) ==
    LET n == CountDigits(s, 1)
    IN  IF n = 0 THEN <<"Err">>
        ELSE <<"Ok", RoundF32(Normalize(FALSE, DigitsValue(s, 1, n), 0))>>

\* f32::from_str(s): <<"Ok", value>> or <<"Err">>.
F32FromStr(s) ==
    IF Len(s) = 0 THEN <<"Err">>
    ELSE
      LET signed == s[1] \in {"+", "-"}
          neg    == s[1] = "-"
          body   == IF signed THEN Tail(s) ELSE s
          num    == ParseNumber(body)
      IN  IF Len(body) = 0 THEN <<"Err">>
          ELSE IF num[1] = "Ok"
               THEN <<"Ok", RoundF32(Normalize(neg, num[2], num[3]))>>
          ELSE ParseInfNan(body, neg)

----------------------------------------------------------------------------
(* AwsCostClient::get_cost after the response: the cost of the first       *)
(* result.                                                                 *)

DefaultAmount == <<"0">>
DefaultUnit == ""

\* Variant: an absent sequence read as one default result.
ResultsAbsentAsDefaultBucket(resp) ==
    IF resp.results_by_time = None THEN <<[total |-> None]>>
    ELSE resp.results_by_time[1]

\* response.results_by_time.unwrap_or(Vec::new())
results_by_times(resp) ==
    IF resp.results_by_time = None THEN <<>> ELSE resp.results_by_time[1]

\* Variant: the last result instead of the first.
LastResult(results) ==
    IF Len(results) = 0 THEN None ELSE Some(results[Len(results)])

\* results_by_times.first()
first_result(results) ==
    IF Len(results) = 0 THEN None ELSE Some(Head(results))

\* Variant: an absent amount read as the empty text.
AmountOrFail(metric_value) ==
    IF metric_value.amount = None THEN <<>> ELSE metric_value.amount[1]

\* metric_value.amount.as_ref().unwrap_or(&"0".to_owned()).to_string()
amount_string(metric_value) ==
    IF metric_value.amount = None THEN DefaultAmount ELSE metric_value.amount[1]

\* metric_value.unit.as_ref().unwrap_or(&"".to_owned()).to_string()
unit_string(metric_value) ==
    IF metric_value.unit = None THEN DefaultUnit ELSE metric_value.unit[1]

\* Lines 90-117: <<"Ok", Cost>>, <<"Err", message>> or <<"Panic", message>>.
extract_cost(resp) ==
    LET first == first_result(results_by_times(resp))
    IN  IF first = None THEN <<"Err", ErrNoResultBucket>>
        ELSE IF first[1].total = None THEN <<"Err", ErrMissingTotals>>
        ELSE
          LET total_cost == first[1].total[1]
          IN  IF UNBLENDED_COST \notin DOMAIN total_cost
              THEN <<"Panic", PanicNoEntry>>
              ELSE
                LET metric_value == total_cost[UNBLENDED_COST]
                    amount == F32FromStr(amount_string(metric_value))
                IN  IF amount[1] = "Err" THEN <<"Err", ErrAmountParse>>
                    ELSE <<"Ok", [amount |-> amount[2],
                                  unit   |-> unit_string(metric_value)]>>

----------------------------------------------------------------------------
(* What the environment and the two services can hand the program.         *)

Option(S) == {None} \cup {Some(x) : x \in S}

SeqsUpTo(S, n) == UNION {[1 .. k -> S] : k \in 0 .. n}

Alphabet == {"0", "1", ".", "-", "e"}

AmountStrings ==
    SeqsUpTo(Alphabet, MaxAmountLen)
    \cup { <<"1", "2", ".", "5">>, <<"1", "0", "0", ".", "0", "0">>,
           <<"n", "o", "t", "-", "a", "-", "n", "u", "m", "b", "e", "r">>,
           <<"N", "a", "N">>, <<"i", "n", "f">>, <<"+", "1">>, <<"1", "E", "1">> }

Units == {"USD", ""}

MetricValues == [amount : Option(AmountStrings), unit : Option(Units)]

OtherMetric == "BlendedCost"
OtherValue == [amount |-> Some(<<"1">>), unit |-> Some("USD")]

\* The totals of the first result: with or without the requested metric,
\* with or without another one.
TotalsMaps ==
    {[k \in {UNBLENDED_COST, OtherMetric} |->
        IF k = UNBLENDED_COST THEN mv ELSE OtherValue] : mv \in MetricValues}
    \cup {[k \in {UNBLENDED_COST} |-> mv] : mv \in MetricValues}
    \cup {[k \in {OtherMetric} |-> OtherValue], [k \in {} |-> OtherValue]}

FirstBuckets == {[total |-> t] : t \in Option(TotalsMaps)}

ValidTotals ==
    [k \in {UNBLENDED_COST} |->
        [amount |-> Some(<<"1", "2", ".", "5">>), unit |-> Some("USD")]]

LaterBuckets == {[total |-> None], [total |-> Some(ValidTotals)]}

Responses ==
    {[results_by_time |-> r] : r \in {None, Some(<<>>)}}
    \cup {[results_by_time |-> Some(<<b>> \o rest)] :
            b \in FirstBuckets, rest \in SeqsUpTo(LaterBuckets, MaxBuckets - 1)}

EnvNames == {"SLACK_API_TOKEN", "SLACK_CHANNEL_ID"}
EnvValues == {"value"}

TodaySamples ==
    {[year |-> 2024, month |-> 3, day |-> 15],
     [year |-> 2024, month |-> 1, day |-> 1]}

----------------------------------------------------------------------------
(* main, one action per step between two points where it can end or wait.  *)

\* The external calls in the history.
CallQuery      == "get_cost_and_usage"
CallQueryOk    == "get_cost_and_usage: Ok"
CallQueryErr   == "get_cost_and_usage: Err"
CallClient     == "default_client"
CallPost       == "post_message"
CallPostOk     == "post_message: Ok"
CallPostErr    == "post_message: Err"

\* main returns Err(msg) through `?`.
Fail(msg) ==
    /\ pc' = "done"
    /\ outcome' = <<"Err", msg>>

\* The thread running main panics.
Panic(msg) ==
    /\ pc' = "done"
    /\ outcome' = <<"Panic", msg>>

\* Lines 32-33: env::var("SLACK_API_TOKEN").map_err(..)?
ReadToken ==
    /\ pc = "read_token"
    /\ IF env["SLACK_API_TOKEN"] = None
       THEN /\ Fail(ErrTokenMissing)
            /\ UNCHANGED token
       ELSE /\ token' = env["SLACK_API_TOKEN"]
            /\ pc' = "read_channel"
            /\ UNCHANGED outcome
    /\ UNCHANGED <<env, today, granularity, channel_id, request, response,
                   cost, message, calls>>

\* Variant: the channel read without the `?`.
ReadChannelUnchecked ==
    /\ pc = "read_channel"
    /\ channel_id' = env["SLACK_CHANNEL_ID"]
    /\ pc' = "get_cost"
    /\ UNCHANGED <<env, today, granularity, token, request, response,
                   cost, message, calls, outcome>>

\* Lines 34-35: env::var("SLACK_CHANNEL_ID").map_err(..)?
ReadChannel ==
    /\ pc = "read_channel"
    /\ IF env["SLACK_CHANNEL_ID"] = None
       THEN /\ Fail(ErrChannelMissing)
            /\ UNCHANGED channel_id
       ELSE /\ channel_id' = env["SLACK_CHANNEL_ID"]
            /\ pc' = "get_cost"
            /\ UNCHANGED outcome
    /\ UNCHANGED <<env, today, granularity, token, request, response,
                   cost, message, calls>>

\* The GetCostAndUsageRequest of lines 81-86.
cost_request(cost_granularity_type, now) ==
    [granularity |-> Some(name(cost_granularity_type)),
     time_period |-> get_date_interval_from_end_date(now),
     metrics     |-> Some(<<UNBLENDED_COST>>)]

\* Lines 37-40 and 79-87: get_cost builds the request and sends it.
GetCostRequest ==
    /\ pc = "get_cost"
    /\ request' = Some(cost_request(granularity, today))
    /\ calls' = Append(calls, CallQuery)
    /\ pc' = "await_query"
    /\ UNCHANGED <<env, today, granularity, token, channel_id, response,
                   cost, message, outcome>>

\* Variant: the query's error swallowed, get_cost going on.
QueryFailedContinues ==
    /\ pc = "await_query"
    /\ calls' = Append(calls, CallQueryErr)
    /\ response' = Some([results_by_time |-> None])
    /\ pc' = "extract"
    /\ UNCHANGED <<env, today, granularity, token, channel_id, request,
                   cost, message, outcome>>

\* Lines 87-88: the call fails; .map_err(|_| "Request error")?
QueryFailed ==
    /\ pc = "await_query"
    /\ calls' = Append(calls, CallQueryErr)
    /\ Fail(ErrQueryFailed)
    /\ UNCHANGED <<env, today, granularity, token, channel_id, request,
                   response, cost, message>>

\* Line 87: the call returns a response.
QueryReturned ==
    /\ pc = "await_query"
    /\ \E resp \in Responses : response' = Some(resp)
    /\ calls' = Append(calls, CallQueryOk)
    /\ pc' = "extract"
    /\ UNCHANGED <<env, today, granularity, token, channel_id, request,
                   cost, message, outcome>>

\* Lines 90-118 and the `?` of line 40.
ExtractCost ==
    /\ pc = "extract"
    /\ LET r == extract_cost(response[1])
       IN  IF r[1] = "Ok"
           THEN /\ cost' = Some(r[2])
                /\ pc' = "build_message"
                /\ UNCHANGED outcome
           ELSE IF r[1] = "Err"
           THEN /\ Fail(r[2])
                /\ UNCHANGED cost
           ELSE /\ Panic(r[2])
                /\ UNCHANGED cost
    /\ UNCHANGED <<env, today, granularity, token, channel_id, request,
                   response, message, calls>>

\* format!("Usage cost: {:?} {}", cost.amount, cost.unit)
format_message(c) == <<"Usage cost: ", c.amount, " ", c.unit>>

\* Lines 42-46 and 128-135: the message, then SlackClient::new, whose
\* slack_api::default_client() may fail.
BuildMessage ==
    /\ pc = "build_message"
    /\ message' = Some(format_message(cost[1]))
    /\ calls' = Append(calls, CallClient)
    /\ \E built \in BOOLEAN :
          IF built
          THEN /\ pc' = "send"
               /\ UNCHANGED outcome
          ELSE Fail(ErrClientBuild)
    /\ UNCHANGED <<env, today, granularity, token, channel_id, request,
                   response, cost>>

\* Lines 47-48 and 138-142: post_message is called.
SendMessage ==
    /\ pc = "send"
    /\ calls' = Append(calls, CallPost)
    /\ pc' = "await_post"
    /\ UNCHANGED <<env, today, granularity, token, channel_id, request,
                   response, cost, message, outcome>>

\* Variant: a failed post attempted again.
PostFailedRetries ==
    /\ pc = "await_post"
    /\ calls' = Append(calls, CallPostErr)
    /\ pc' = IF Len(calls) < 8 THEN "send" ELSE "done"
    /\ outcome' = IF Len(calls) < 8 THEN outcome
                  ELSE <<"Err", ErrDeliveryFailed>>
    /\ UNCHANGED <<env, today, granularity, token, channel_id, request,
                   response, cost, message>>

\* Lines 142-145 and the `?` of line 49: the post fails.
PostFailed ==
    /\ pc = "await_post"
    /\ calls' = Append(calls, CallPostErr)
    /\ Fail(ErrDeliveryFailed)
    /\ UNCHANGED <<env, today, granularity, token, channel_id, request,
                   response, cost, message>>

\* Lines 49-51: the post is acknowledged; main returns Ok(()).
PostReturned ==
    /\ pc = "await_post"
    /\ calls' = Append(calls, CallPostOk)
    /\ pc' = "done"
    /\ outcome' = <<"Ok">>
    /\ UNCHANGED <<env, today, granularity, token, channel_id, request,
                   response, cost, message>>

Init ==
    /\ pc = "read_token"
    /\ env \in [EnvNames -> Option(EnvValues)]
    /\ today \in TodaySamples
    /\ granularity = "Monthly"
    /\ token = None
    /\ channel_id = None
    /\ request = None
    /\ response = None
    /\ cost = None
    /\ message = None
    /\ calls = <<>>
    /\ outcome = <<"Running">>

Next ==
    \/ ReadToken
    \/ ReadChannel
    \/ GetCostRequest
    \/ QueryFailed
    \/ QueryReturned
    \/ ExtractCost
    \/ BuildMessage
    \/ SendMessage
    \/ PostFailed
    \/ PostReturned

Spec == Init /\ [][Next]_vars

\* get_cost's request for every date and every granularity.
InitWindow ==
    /\ pc = "get_cost"
    /\ env = [n \in EnvNames |-> Some("value")]
    /\ today \in Dates
    /\ granularity \in CostGranularityType
    /\ token = Some("value")
    /\ channel_id = Some("value")
    /\ request = None
    /\ response = None
    /\ cost = None
    /\ message = None
    /\ calls = <<>>
    /\ outcome = <<"Running">>

NextWindow == GetCostRequest

SpecWindow == InitWindow /\ [][NextWindow]_vars

----------------------------------------------------------------------------
(* Vocabulary of the properties.                                           *)

Count(c) == Cardinality({i \in DOMAIN calls : calls[i] = c})
Called(c) == \E i \in DOMAIN calls : calls[i] = c

Ended(msg) == pc = "done" /\ outcome = <<"Err", msg>>

\* get_cost has finished with the response (it returned, or it panicked).
Extracted == response # None /\ pc # "extract"

Buckets == results_by_times(response[1])
HasBucket == response # None /\ response[1].results_by_time # None
                /\ Len(response[1].results_by_time[1]) > 0
HasTotals == HasBucket /\ Buckets[1].total # None
HasMetric == HasTotals /\ UNBLENDED_COST \in DOMAIN Buckets[1].total[1]
Metric == Buckets[1].total[1][UNBLENDED_COST]

Zero == Finite(FALSE, 0, 0)

\* The text of a float literal, stated as a grammar: an optional sign, then
\* inf, infinity or nan in any case, or digits with at most one point and
\* at least one digit, optionally followed by e or E, an optional sign and
\* at least one digit.
AllDigits(s, i, j) == \A k \in i .. j : IsDigit(s[k])

IsMantissa(s, i, j) ==
    \/ j >= i /\ AllDigits(s, i, j)
    \/ \E d \in i .. j :
          /\ s[d] = "."
          /\ j > i
          /\ AllDigits(s, i, d - 1)
          /\ AllDigits(s, d + 1, j)

IsExponent(s, i, j) ==
    /\ i < j
    /\ s[i] \in {"e", "E"}
    /\ \/ AllDigits(s, i + 1, j)
       \/ s[i + 1] \in {"+", "-"} /\ i + 1 < j /\ AllDigits(s, i + 2, j)

IsNumericString(s) ==
    /\ Len(s) > 0
    /\ LET b == IF s[1] \in {"+", "-"} THEN 2 ELSE 1
           word == Lowercase(SubSeq(s, b, Len(s)))
       IN  \/ \E k \in b .. Len(s) :
                 /\ IsMantissa(s, b, k)
                 /\ k = Len(s) \/ IsExponent(s, k + 1, Len(s))
           \/ word \in { <<"i", "n", "f">>, <<"n", "a", "n">>,
                         <<"i", "n", "f", "i", "n", "i", "t", "y">> }

\* The day before d in the Gregorian calendar, by cases.
CalendarPredecessor(d) ==
    IF d.day > 1 THEN [year |-> d.year, month |-> d.month, day |-> d.day - 1]
    ELSE IF d.month > 1
         THEN [year |-> d.year, month |-> d.month - 1,
               day |-> DaysInMonth(d.year, d.month - 1)]
    ELSE [year |-> d.year - 1, month |-> 12, day |-> 31]

IsDateText(s) ==
    /\ Len(s) = 10
    /\ s[5] = "-" /\ s[8] = "-"
    /\ AllDigits(s, 1, 4) /\ AllDigits(s, 6, 7) /\ AllDigits(s, 9, 10)

\* The date a YYYY-MM-DD text denotes.
ReadDate(s) ==
    [year |-> DigitsValue(s, 1, 4), month |-> DigitsValue(s, 6, 7),
     day |-> DigitsValue(s, 9, 10)]

\* '-' sorts before the digits.
CharRank(c) == IF c = "-" THEN 0 ELSE DigitVal(c) + 1

\* s sorts strictly before t as text.
TextLess(s, t) ==
    \E i \in 1 .. Len(t) :
        /\ \A k \in 1 .. i - 1 : k <= Len(s) /\ s[k] = t[k]
        /\ \/ i = Len(s) + 1
           \/ i <= Len(s) /\ CharRank(s[i]) < CharRank(t[i])

----------------------------------------------------------------------------
(* The properties.                                                         *)

\* C1: the chat post starts only after the billing query has returned
\* successfully; when the billing query fails, main has ended with the
\* query-failure error and no chat post was ever started.
C1_PostOnlyAfterQuery ==
    /\ \A i \in DOMAIN calls :
          calls[i] = CallPost => \E j \in 1 .. i - 1 : calls[j] = CallQueryOk
    /\ Called(CallQueryErr) =>
          /\ Ended(ErrQueryFailed)
          /\ ~Called(CallPost)
          /\ ~Called(CallClient)

C1_Witness ==
    /\ Called(CallQueryErr)
    /\ Ended(ErrQueryFailed)

\* C2: when the totals of the first result do not hold the requested metric,
\* get_cost returns an error value and main ends with that error.
C2_MissingMetricIsErrorValue ==
    (Extracted /\ HasTotals /\ ~HasMetric) =>
        (pc = "done" /\ outcome[1] = "Err" /\ cost = None)

\* C3: for every date and every granularity the request's window is the
\* text of the calendar day before today and the text of today, the first
\* sorting strictly before the second.
C3_OneDayWindow ==
    request # None =>
        LET tp == request[1].time_period
        IN  /\ IsDateText(tp.start) /\ IsDateText(tp.end)
            /\ ReadDate(tp.end) = today
            /\ ReadDate(tp.start) = CalendarPredecessor(today)
            /\ TextLess(tp.start, tp.end)
            /\ request[1].granularity = Some(name(granularity))

C3_Witness ==
    /\ request # None
    /\ granularity = "Hourly"
    /\ today.month = 1 /\ today.day = 1
    /\ ReadDate(request[1].time_period.start).month = 12

\* C4: a response whose result sequence is absent, or present and empty,
\* makes get_cost fail with the no-result error, the same in both cases.
C4_NoResultBucket ==
    (Extracted /\ ~HasBucket) =>
        (Ended(ErrNoResultBucket) /\ cost = None)

C4_Witness ==
    /\ Extracted
    /\ response[1].results_by_time = None
    /\ Ended(ErrNoResultBucket)

\* C5: when the first totals hold the metric, an absent amount reads as 0
\* and an absent unit as the empty string, each on its own; a present field
\* gives its own value; get_cost fails only on a present amount that does
\* not parse.
C5_Defaults ==
    (Extracted /\ HasMetric) =>
        /\ Metric.amount = None => (cost # None /\ cost[1].amount = Zero)
        /\ (Metric.unit = None /\ cost # None) => cost[1].unit = ""
        /\ (Metric.unit # None /\ cost # None) => cost[1].unit = Metric.unit[1]
        /\ (Metric.amount # None /\ cost # None) =>
              <<"Ok", cost[1].amount>> = F32FromStr(Metric.amount[1])
        /\ cost = None =>
              (Metric.amount # None /\ ~IsNumericString(Metric.amount[1]))

C5_Witness ==
    /\ Extracted /\ HasMetric
    /\ Metric.amount = None /\ Metric.unit = None
    /\ cost = Some([amount |-> Zero, unit |-> ""])

Extraction == IF cost # None THEN <<"Ok", cost[1]>> ELSE outcome

\* C7: only the first result decides: without totals in it get_cost fails
\* with the missing-totals error whatever follows, and the outcome is the
\* one the first result alone would give.
C7_FirstBucketDecides ==
    (Extracted /\ HasBucket) =>
        /\ Buckets[1].total = None => (Ended(ErrMissingTotals) /\ cost = None)
        /\ LET alone == extract_cost([results_by_time |-> Some(<<Buckets[1]>>)])
           IN  /\ Extraction[1] = alone[1]
               /\ Extraction[2] = alone[2]

C7_Witness ==
    /\ Extracted
    /\ HasBucket
    /\ Len(Buckets) = 2
    /\ Buckets[1].total = None
    /\ Buckets[2].total = Some(ValidTotals)
    /\ Ended(ErrMissingTotals)

\* The stage at which the run failed, when it did.
MissingConfig == \E n \in EnvNames : env[n] = None

\* C8: a failure at any stage before the post ends main with that failure
\* as its error, nothing after that stage runs and nothing is posted; a
\* post is made only with a Cost in hand.
C8_FailureIsReportedAndFinal ==
    /\ Called(CallPost) => cost # None
    /\ Called(CallQueryErr) => (Ended(ErrQueryFailed) /\ ~Called(CallPost))
    /\ (Extracted /\ cost = None) =>
          /\ pc = "done"
          /\ outcome[1] = "Err"
          /\ outcome[2] \in {ErrNoResultBucket, ErrMissingTotals, ErrAmountParse}
          /\ ~Called(CallClient) /\ ~Called(CallPost)
    /\ (pc = "done" /\ MissingConfig) =>
          (outcome[1] = "Err" /\ calls = <<>>)
    /\ Ended(ErrClientBuild) => ~Called(CallPost)

\* C9: the billing query and the chat post are each made at most once;
\* main returns Ok only after exactly one of each, both successful; a
\* failed post ends main with the delivery error after that one attempt.
C9_AtMostOnce ==
    /\ Count(CallQuery) <= 1
    /\ Count(CallPost) <= 1
    /\ outcome = <<"Ok">> =>
          /\ Count(CallQuery) = 1 /\ Count(CallQueryOk) = 1
          /\ Count(CallPost) = 1 /\ Count(CallPostOk) = 1
          /\ ~Called(CallQueryErr) /\ ~Called(CallPostErr)
    /\ Called(CallPostErr) =>
          (Ended(ErrDeliveryFailed) /\ Count(CallPost) = 1)

C9_Witness ==
    /\ Called(CallPostErr)
    /\ Ended(ErrDeliveryFailed)
    /\ Count(CallPost) = 1

\* C10: with the token or the channel missing from the environment no
\* external call is ever made and main ends with the error of the missing
\* variable; the billing query is made only with both present.
C10_ConfigFirst ==
    /\ MissingConfig =>
          /\ calls = <<>>
          /\ pc \in {"read_token", "read_channel", "done"}
          /\ pc = "done" =>
                (outcome[1] = "Err"
                    /\ outcome[2] \in {ErrTokenMissing, ErrChannelMissing})
    /\ Called(CallQuery) =>
          (\A n \in EnvNames : env[n] # None)
    /\ Called(CallQuery) => (token # None /\ channel_id # None)

C10_Witness ==
    /\ env["SLACK_API_TOKEN"] # None
    /\ env["SLACK_CHANNEL_ID"] = None
    /\ Ended(ErrChannelMissing)
    /\ calls = <<>>

====
